---- MODULE Spec2Model ----
(***************************************************************************)
(* State-machine model of scrapy_selenium.middlewares.SeleniumMiddleware:  *)
(* from_crawler/__init__ (construction of the one webdriver session),      *)
(* process_request (the per-request hook) and spider_closed (teardown).    *)
(* The webdriver is modelled by what its calls do to the session: the      *)
(* current page, the scripts run on it, the cookie jar, and whether the    *)
(* session is still alive.  Every driver call can raise.                   *)
(***************************************************************************)
EXTENDS Integers, Sequences, FiniteSets, TLC

VARIABLES
    crawler,    \* [mw, connected, closed]: middleware built?, signal connected?, signal fired?
    sessions,   \* number of webdriver sessions constructed so far
    driver,     \* self.driver: [sid, alive, url, scripted, jar]; sid = 0: attribute not set
    request,    \* the request object currently held by the calling code (its meta is mutable)
    last        \* record of the last operation: its inputs, outcome and trace of steps

vars == <<crawler, sessions, driver, request, last>>

\* Largest wait_time (in polling intervals of WebDriverWait) a request carries.
MaxWaitTime == 1

None == "None"

-----------------------------------------------------------------------------
(* The web the browser sees.                                               *)

Urls == {"u1", "u2"}

\* The URL the browser ends on after navigating to u ("u2" redirects).
Resolve(u) == IF u = "u2" THEN "u2r" ELSE u

\* The rendered document of a page, as a sequence of code points; a script
\* that ran on the page has appended to the document.
PageSource(url, scripted) ==
    LET base == IF url = "u1" THEN <<104, 105>>
                ELSE IF url = "u2r" THEN <<233, 8364>>
                ELSE <<>>
    IN  IF scripted THEN Append(base, 33) ELSE base

\* The PNG rendering of the current frame (signature bytes, then the frame).
Png(url, scripted) ==
    <<137, 80, 78, 71>> \o PageSource(url, scripted)

\* str.encode(): the UTF-8 encoding of a sequence of code points.
Utf8Char(cp) ==
    IF cp < 128 THEN <<cp>>
    ELSE IF cp < 2048 THEN <<192 + (cp \div 64), 128 + (cp % 64)>>
    ELSE IF cp < 65536
         THEN <<224 + (cp \div 4096), 128 + ((cp \div 64) % 64), 128 + (cp % 64)>>
    ELSE <<240 + (cp \div 262144), 128 + ((cp \div 4096) % 64),
           128 + ((cp \div 64) % 64), 128 + (cp % 64)>>

RECURSIVE StrEncode(_)
StrEncode(s) ==
    IF s = <<>> THEN <<>> ELSE Utf8Char(Head(s)) \o StrEncode(Tail(s))

-----------------------------------------------------------------------------
(* Settings and construction.                                              *)

\* Driver families selenium ships a selenium.webdriver.<name> package for,
\* and those seleniumwire.webdriver has a class for.
SeleniumDrivers == {"chrome", "ie"}
WireDrivers == {"chrome"}

Settings ==
    [ SELENIUM_DRIVER_NAME            : {None, "chrome", "ie", "bogus"},
      SELENIUM_DRIVER_EXECUTABLE_PATH : {None, "/bin/driver"},
      SELENIUM_COMMAND_EXECUTOR       : {None, "http://hub"},
      SELENIUM_DRIVER_ARGUMENTS       : {<<None>>, <<>>, <<"--headless", "user-agent=x">>},
      SELENIUM_BROWSER_EXECUTABLE_PATH: {None, "/bin/browser"},
      SELENIUM_DRIVER_DESIRED_CAPABILITIES : {None, "prefs"},
      SELENIUM_DRIVER_USE_WIRE        : {None, "True"},
      SELENIUM_DRIVER_USER_AGENT      : {None, "user-agent=y"} ]

\* An unset SELENIUM_DRIVER_ARGUMENTS is read as None (kept as <<None>> so
\* that the setting is a sequence in every case).
ArgumentsUnset(args) == args = <<None>>

NoDriver == [sid |-> 0, alive |-> FALSE, url |-> "about:blank",
             scripted |-> FALSE, jar |-> [n \in {"a", "b"} |-> None]]

NewDriver(sid) == [NoDriver EXCEPT !.sid = sid, !.alive = TRUE]

Init ==
    /\ crawler = [mw |-> "none", connected |-> FALSE, closed |-> FALSE]
    /\ sessions = 0
    /\ driver = NoDriver
    /\ request = [kind |-> None]
    /\ last = [op |-> "init"]

\* Mutant: the check of the path and the endpoint is left out.
MissingConfiguration_NameOnly(s) ==
    IF s.SELENIUM_DRIVER_NAME = None
    THEN "SELENIUM_DRIVER_NAME must be set"
    ELSE "ok"

\* from_crawler's two configuration checks: the message of the NotConfigured
\* raised, or "ok".
MissingConfiguration(s) ==
    IF s.SELENIUM_DRIVER_NAME = None
    THEN "SELENIUM_DRIVER_NAME must be set"
    ELSE IF /\ s.SELENIUM_DRIVER_EXECUTABLE_PATH = None
            /\ s.SELENIUM_COMMAND_EXECUTOR = None
    THEN "Either SELENIUM_DRIVER_EXECUTABLE_PATH or SELENIUM_COMMAND_EXECUTOR must be set"
    ELSE "ok"

IsUserAgentArgument(a) == a \in {"user-agent=x", "user-agent=y"}

\* The argument list handed to the driver options: a user-agent argument is
\* replaced by the separately configured one, when there is one.
DriverArguments(args, user_agent) ==
    [i \in 1..Len(args) |->
        IF IsUserAgentArgument(args[i]) /\ user_agent # None
        THEN user_agent ELSE args[i]]

\* Mutant: the remote branch is an "if", not an "elif".
ConstructorCalls_Both(s) ==
    (IF s.SELENIUM_DRIVER_EXECUTABLE_PATH # None
     THEN IF s.SELENIUM_DRIVER_USE_WIRE = "True" THEN <<"wire">> ELSE <<"standard">>
     ELSE <<>>)
    \o (IF s.SELENIUM_COMMAND_EXECUTOR # None THEN <<"remote">> ELSE <<>>)

\* The webdriver classes __init__ instantiates, in order: the local driver
\* (selenium-wire's or selenium's) when an executable path is given,
\* otherwise the remote one when an endpoint is given.
ConstructorCalls(s) ==
    IF s.SELENIUM_DRIVER_EXECUTABLE_PATH # None
    THEN IF s.SELENIUM_DRIVER_USE_WIRE = "True" THEN <<"wire">> ELSE <<"standard">>
    ELSE IF s.SELENIUM_COMMAND_EXECUTOR # None THEN <<"remote">>
    ELSE <<>>

\* The driver options __init__ builds: the browser binary when one is given,
\* the arguments, and the capability overrides when there are any.
DriverOptions(s) ==
    [binary_location |-> s.SELENIUM_BROWSER_EXECUTABLE_PATH,
     arguments |-> DriverArguments(s.SELENIUM_DRIVER_ARGUMENTS,
                                   s.SELENIUM_DRIVER_USER_AGENT),
     capabilities |-> IF s.SELENIUM_DRIVER_DESIRED_CAPABILITIES # None
                      THEN {s.SELENIUM_DRIVER_DESIRED_CAPABILITIES} ELSE {}]

NoOptions == [binary_location |-> None, arguments |-> <<>>, capabilities |-> {}]

\* SeleniumMiddleware.__init__: [raised, built, klass, options].  built is
\* the number of sessions constructed; launchOk says whether the driver
\* constructor manages to start its browser.
Construct(s, launchOk) ==
    LET calls == ConstructorCalls(s)
        none  == [raised |-> "ok", built |-> 0, klass |-> None, options |-> NoOptions]
    IN  IF s.SELENIUM_DRIVER_NAME \notin SeleniumDrivers
        THEN [none EXCEPT !.raised = "ModuleNotFoundError"]
        ELSE IF ArgumentsUnset(s.SELENIUM_DRIVER_ARGUMENTS)
        THEN [none EXCEPT !.raised = "TypeError"]
        ELSE LET opts == DriverOptions(s)
             IN  IF calls = <<>> THEN [none EXCEPT !.options = opts]
                 ELSE IF calls[1] = "wire" /\ s.SELENIUM_DRIVER_NAME \notin WireDrivers
                 THEN [none EXCEPT !.raised = "AttributeError", !.options = opts]
                 ELSE IF ~launchOk
                 THEN [none EXCEPT !.raised = "WebDriverException", !.options = opts]
                 ELSE [raised |-> "ok", built |-> Len(calls),
                       klass |-> calls[Len(calls)], options |-> opts]

\* SeleniumMiddleware.from_crawler, run once at startup.
from_crawler(s, launchOk) ==
    /\ crawler.mw = "none"
    /\ LET miss == MissingConfiguration(s)
           r    == IF miss = "ok" THEN Construct(s, launchOk)
                   ELSE [raised |-> "NotConfigured", built |-> 0,
                         klass |-> None, options |-> NoOptions]
       IN  /\ sessions' = sessions + r.built
           /\ driver' = IF r.built > 0 THEN NewDriver(sessions + r.built) ELSE driver
           /\ crawler' = IF r.raised = "ok"
                         THEN [crawler EXCEPT !.mw = "built", !.connected = TRUE]
                         ELSE [crawler EXCEPT !.mw = "failed"]
           /\ last' = [op |-> "from_crawler", settings |-> s, launchOk |-> launchOk,
                       raised |-> r.raised,
                       message |-> miss, klass |-> r.klass, options |-> r.options]
    /\ UNCHANGED request

-----------------------------------------------------------------------------
(* Requests.                                                               *)

\* request.cookies: a dict, as its items in insertion order.
CookieSets == { <<>>, << <<"a", "1">>, <<"b", "2">> >>, << <<"a", "2">> >> }

EmptyMeta == [driver |-> 0, screenshot |-> <<>>]

\* SeleniumRequest(url, cookies, wait_time, wait_until, screenshot, script).
SeleniumRequests ==
    { r \in [kind : {"SeleniumRequest"}, url : Urls, cookies : CookieSets,
             wait_until : {None, "cond"}, wait_time : 0..MaxWaitTime,
             screenshot : BOOLEAN, script : {None, "", "js"}, meta : {EmptyMeta}] :
        r.wait_until = None => r.wait_time = 0 }

\* A plain scrapy Request: it has none of the browser fields.
PlainRequests ==
    [kind : {"Request"}, url : Urls, cookies : CookieSets,
     wait_until : {None}, wait_time : {0}, screenshot : {FALSE},
     script : {None}, meta : {EmptyMeta}]

\* Mutant: every request is taken for a SeleniumRequest.
IsSeleniumRequest_Any(r) == r.kind # None

\* isinstance(request, SeleniumRequest)
IsSeleniumRequest(r) == r.kind = "SeleniumRequest"

\* Python truth of an optional field.
Truthy(x) == x \notin {None, ""}

\* The immutable part of a request (everything but its meta).
Fields(r) == [f \in (DOMAIN r) \ {"meta"} |-> r[f]]

\* The calling code creates a request and submits it.
new_request(r) ==
    /\ crawler.mw = "built"
    /\ request' = r
    /\ last' = [op |-> "new_request"]
    /\ UNCHANGED <<crawler, sessions, driver>>

-----------------------------------------------------------------------------
(* process_request.  The handler is run on a context c = [drv, meta,       *)
(* trace, raised, wrote, body, response]; once a step has raised, the      *)
(* steps after it leave the context alone.  failAt is the position in the  *)
(* trace of the driver call that raises (0: none does).                    *)

NoResponse == [url |-> None, body |-> <<>>, encoding |-> None, request |-> [kind |-> None]]

\* A call on self.driver: recorded in the trace; it raises when the
\* middleware holds no driver, when the session was quit, or when the driver does.
Call(c, op, arg, failAt) ==
    IF c.raised # "ok" THEN c
    ELSE LET t == Append(c.trace, [op |-> op, arg |-> arg])
         IN  [c EXCEPT !.trace = t,
                       !.raised = IF c.drv.sid = 0 THEN "AttributeError"
                                  ELSE IF ~c.drv.alive THEN "SessionClosed"
                                  ELSE IF Len(t) = failAt THEN "WebDriverException"
                                  ELSE "ok"]

\* A step of the handler that is no driver call.
Step(c, op, arg) ==
    IF c.raised # "ok" THEN c
    ELSE [c EXCEPT !.trace = Append(@, [op |-> op, arg |-> arg])]

\* self.driver.get(request.url)
DriverGet(c, url, failAt) ==
    LET c1 == Call(c, "get", <<url>>, failAt)
    IN  IF c1.raised # "ok" THEN c1
        ELSE [c1 EXCEPT !.drv.url = Resolve(url), !.drv.scripted = FALSE]

\* Mutant: the loop over the cookies stops after the first one.
AddCookies_FirstOnly(c, cookies, failAt) ==
    IF cookies = <<>> THEN c
    ELSE LET ck == Head(cookies)
             c1 == Call(c, "add_cookie", ck, failAt)
         IN  IF c1.raised # "ok" THEN c1
             ELSE [c1 EXCEPT !.drv.jar[ck[1]] = ck[2]]

\* for cookie_name, cookie_value in request.cookies.items(): add_cookie(...)
RECURSIVE AddCookies(_, _, _)
AddCookies(c, cookies, failAt) ==
    IF cookies = <<>> THEN c
    ELSE LET ck == Head(cookies)
             c1 == Call(c, "add_cookie", ck, failAt)
             c2 == IF c1.raised # "ok" THEN c1
                   ELSE [c1 EXCEPT !.drv.jar[ck[1]] = ck[2]]
         IN  AddCookies(c2, Tail(cookies), failAt)

\* WebDriverWait.until: poll the condition now and after every interval, as
\* long as the timeout has not passed; readyAt is the first poll at which the
\* condition holds.
RECURSIVE Until(_, _, _)
Until(t, timeout, readyAt) ==
    IF t >= readyAt THEN TRUE
    ELSE IF t + 1 > timeout THEN FALSE
    ELSE Until(t + 1, timeout, readyAt)

\* Mutant: the timeout of the wait is swallowed.
Wait_Swallow(c, wait_time, readyAt, failAt) ==
    Call(c, "wait", <<>>, failAt)

\* WebDriverWait(self.driver, request.wait_time).until(request.wait_until)
Wait(c, wait_time, readyAt, failAt) ==
    LET c1 == Call(c, "wait", <<>>, failAt)
    IN  IF c1.raised # "ok" THEN c1
        ELSE IF Until(0, wait_time, readyAt) THEN c1
        ELSE [c1 EXCEPT !.raised = "TimeoutException"]

\* request.meta['screenshot'] = self.driver.get_screenshot_as_png()
Screenshot(c, failAt) ==
    LET c1 == Call(c, "get_screenshot_as_png", <<>>, failAt)
    IN  IF c1.raised # "ok" THEN c1
        ELSE [c1 EXCEPT !.meta.screenshot = Png(c.drv.url, c.drv.scripted),
                        !.wrote = @ \cup {"screenshot"}]

\* self.driver.execute_script(request.script)
ExecuteScript(c, script, failAt) ==
    LET c1 == Call(c, "execute_script", <<script>>, failAt)
    IN  IF c1.raised # "ok" THEN c1
        ELSE [c1 EXCEPT !.drv.scripted = TRUE]

\* body = str.encode(self.driver.page_source)
ReadPageSource(c, failAt) ==
    LET c1 == Call(c, "page_source", <<>>, failAt)
    IN  IF c1.raised # "ok" THEN c1
        ELSE [c1 EXCEPT !.body = StrEncode(PageSource(c.drv.url, c.drv.scripted))]

\* request.meta.update({'driver': self.driver})
MetaUpdate(c) ==
    LET c1 == Step(c, "meta_update", <<"driver">>)
    IN  IF c1.raised # "ok" THEN c1
        ELSE [c1 EXCEPT !.meta.driver = c.drv.sid, !.wrote = @ \cup {"driver"}]

\* Mutant: the response carries the request's URL, not the session's.
BuildResponse_RequestUrl(c, r, failAt) ==
    LET c1 == Call(c, "current_url", <<>>, failAt)
        c2 == Step(c1, "HtmlResponse", <<>>)
    IN  IF c2.raised # "ok" THEN c2
        ELSE [c2 EXCEPT !.response = [url |-> r.url, body |-> c.body,
                                      encoding |-> "utf-8", request |-> Fields(r)]]

\* return HtmlResponse(self.driver.current_url, body=body, encoding='utf-8', request=request)
BuildResponse(c, r, failAt) ==
    LET c1 == Call(c, "current_url", <<>>, failAt)
        c2 == Step(c1, "HtmlResponse", <<>>)
    IN  IF c2.raised # "ok" THEN c2
        ELSE [c2 EXCEPT !.response = [url |-> c.drv.url, body |-> c.body,
                                      encoding |-> "utf-8", request |-> Fields(r)]]

\* Mutant: the screenshot is taken whatever the flag says.
Handle_AlwaysScreenshot(c0, r, failAt, readyAt) ==
    LET c1 == DriverGet(c0, r.url, failAt)
        c2 == AddCookies(c1, r.cookies, failAt)
        c3 == IF Truthy(r.wait_until) THEN Wait(c2, r.wait_time, readyAt, failAt) ELSE c2
        c4 == Screenshot(c3, failAt)
        c5 == IF Truthy(r.script) THEN ExecuteScript(c4, r.script, failAt) ELSE c4
        c6 == ReadPageSource(c5, failAt)
        c7 == MetaUpdate(c6)
    IN  BuildResponse(c7, r, failAt)

\* Mutant: the cookies are injected before the navigation.
Handle_CookiesFirst(c0, r, failAt, readyAt) ==
    LET c1 == AddCookies(c0, r.cookies, failAt)
        c2 == DriverGet(c1, r.url, failAt)
        c3 == IF Truthy(r.wait_until) THEN Wait(c2, r.wait_time, readyAt, failAt) ELSE c2
        c4 == IF r.screenshot THEN Screenshot(c3, failAt) ELSE c3
        c5 == IF Truthy(r.script) THEN ExecuteScript(c4, r.script, failAt) ELSE c4
        c6 == ReadPageSource(c5, failAt)
        c7 == MetaUpdate(c6)
    IN  BuildResponse(c7, r, failAt)

\* Mutant: the page source is read before the navigation.
Handle_SourceFirst(c0, r, failAt, readyAt) ==
    LET c1 == ReadPageSource(c0, failAt)
        c2 == DriverGet(c1, r.url, failAt)
        c3 == AddCookies(c2, r.cookies, failAt)
        c4 == IF Truthy(r.wait_until) THEN Wait(c3, r.wait_time, readyAt, failAt) ELSE c3
        c5 == IF r.screenshot THEN Screenshot(c4, failAt) ELSE c4
        c6 == IF Truthy(r.script) THEN ExecuteScript(c5, r.script, failAt) ELSE c5
        c7 == MetaUpdate(c6)
    IN  BuildResponse(c7, r, failAt)

\* The body of process_request for a SeleniumRequest.
Handle(c0, r, failAt, readyAt) ==
    LET c1 == DriverGet(c0, r.url, failAt)
        c2 == AddCookies(c1, r.cookies, failAt)
        c3 == IF Truthy(r.wait_until) THEN Wait(c2, r.wait_time, readyAt, failAt) ELSE c2
        c4 == IF r.screenshot THEN Screenshot(c3, failAt) ELSE c3
        c5 == IF Truthy(r.script) THEN ExecuteScript(c4, r.script, failAt) ELSE c4
        c6 == ReadPageSource(c5, failAt)
        c7 == MetaUpdate(c6)
    IN  BuildResponse(c7, r, failAt)

\* The number of steps of the handler for r when nothing raises.
NSteps(r) ==
    Len(r.cookies) + (IF Truthy(r.wait_until) THEN 1 ELSE 0)
    + (IF r.screenshot THEN 1 ELSE 0) + (IF Truthy(r.script) THEN 1 ELSE 0) + 5

\* SeleniumMiddleware.process_request(request, spider).  The outcome of the
\* driver calls is the environment's: which call raises (failAt) and when the
\* wait condition first holds (readyAt).
process_request ==
    /\ crawler.mw = "built"
    /\ request.kind # None
    /\ LET sel == IsSeleniumRequest(request)
       IN  \E failAt \in 0..(IF sel THEN NSteps(request) ELSE 0),
              readyAt \in 0..(IF sel /\ Truthy(request.wait_until)
                              THEN MaxWaitTime + 1 ELSE 0) :
           LET c0 == [drv |-> driver, meta |-> request.meta, trace |-> <<>>,
                      raised |-> "ok", wrote |-> {}, body |-> <<>>,
                      response |-> NoResponse]
               c  == IF sel THEN Handle(c0, request, failAt, readyAt) ELSE c0
           IN  /\ driver' = c.drv
               /\ request' = [request EXCEPT !.meta = c.meta]
               /\ last' = [op |-> "process_request", req |-> Fields(request),
                           metaBefore |-> request.meta, readyAt |-> readyAt,
                           aliveBefore |-> driver.alive, urlBefore |-> driver.url,
                           result |-> IF ~sel THEN "None"
                                      ELSE IF c.raised = "ok" THEN "response"
                                      ELSE "raise",
                           raised |-> c.raised, response |-> c.response,
                           trace |-> c.trace, wrote |-> c.wrote]
    /\ UNCHANGED <<crawler, sessions>>

\* A later stage uses the session through request.meta['driver'].
use_meta_driver ==
    /\ request.kind # None
    /\ request.meta.driver # 0
    /\ LET c0 == [drv |-> driver, trace |-> <<>>, raised |-> "ok"]
           c  == Call(c0, "page_source", <<>>, 0)
       IN  last' = [op |-> "use_meta_driver", handle |-> request.meta.driver,
                    raised |-> c.raised, trace |-> c.trace]
    /\ UNCHANGED <<crawler, sessions, driver, request>>

\* Mutant: the handler does not quit the driver.
spider_closed_NoQuit ==
    /\ crawler.connected
    /\ ~crawler.closed
    /\ crawler' = [crawler EXCEPT !.closed = TRUE]
    /\ last' = [op |-> "spider_closed"]
    /\ UNCHANGED <<sessions, request, driver>>

\* SeleniumMiddleware.spider_closed: self.driver.quit()
spider_closed ==
    /\ crawler.connected
    /\ ~crawler.closed
    /\ crawler' = [crawler EXCEPT !.closed = TRUE]
    /\ driver' = [driver EXCEPT !.alive = FALSE]
    /\ last' = [op |-> "spider_closed"]
    /\ UNCHANGED <<sessions, request>>

Next ==
    \/ \E s \in Settings, launchOk \in BOOLEAN : from_crawler(s, launchOk)
    \/ \E r \in SeleniumRequests \cup PlainRequests : new_request(r)
    \/ process_request
    \/ use_meta_driver
    \/ spider_closed

Spec == Init /\ [][Next]_vars

-----------------------------------------------------------------------------
(* Vocabulary of the properties.                                           *)

Processed == last.op = "process_request"
Browser == Processed /\ last.req.kind = "SeleniumRequest"
Responded == Processed /\ last.result = "response"

DriverErrors == {"WebDriverException", "SessionClosed"}

Ops(trace) == [i \in 1..Len(trace) |-> trace[i].op]
Count(trace, op) == Cardinality({i \in 1..Len(trace) : trace[i].op = op})
IsPrefix(s, t) == Len(s) <= Len(t) /\ \A i \in 1..Len(s) : s[i] = t[i]

\* Decoding of a body as UTF-8, as a response declared 'utf-8' is read.
RECURSIVE Utf8Decode(_)
Utf8Decode(b) ==
    IF b = <<>> THEN <<>>
    ELSE IF b[1] < 128 THEN <<b[1]>> \o Utf8Decode(SubSeq(b, 2, Len(b)))
    ELSE IF b[1] < 224
         THEN <<(b[1] - 192) * 64 + (b[2] - 128)>> \o Utf8Decode(SubSeq(b, 3, Len(b)))
    ELSE IF b[1] < 240
         THEN <<(b[1] - 224) * 4096 + (b[2] - 128) * 64 + (b[3] - 128)>>
              \o Utf8Decode(SubSeq(b, 4, Len(b)))
    ELSE <<(b[1] - 240) * 262144 + (b[2] - 128) * 4096 + (b[3] - 128) * 64 + (b[4] - 128)>>
         \o Utf8Decode(SubSeq(b, 5, Len(b)))

\* The steps the handler is to take for request r, in order.
Expected(r) ==
    << [op |-> "get", arg |-> <<r.url>>] >>
    \o [i \in 1..Len(r.cookies) |-> [op |-> "add_cookie", arg |-> r.cookies[i]]]
    \o (IF r.wait_until = "cond" THEN << [op |-> "wait", arg |-> <<>>] >> ELSE <<>>)
    \o (IF r.screenshot THEN << [op |-> "get_screenshot_as_png", arg |-> <<>>] >> ELSE <<>>)
    \o (IF r.script = "js" THEN << [op |-> "execute_script", arg |-> <<r.script>>] >> ELSE <<>>)
    \o << [op |-> "page_source", arg |-> <<>>],
          [op |-> "meta_update", arg |-> <<"driver">>],
          [op |-> "current_url", arg |-> <<>>],
          [op |-> "HtmlResponse", arg |-> <<>>] >>

NoOptionalFields(r) ==
    /\ r.kind = "SeleniumRequest"
    /\ r.cookies = <<>>
    /\ r.wait_until = None
    /\ ~r.screenshot
    /\ r.script = None

-----------------------------------------------------------------------------
\* C1: a request that is not a SeleniumRequest gets None, no call is made on
\* the browser session (the trace of the call is empty, the session is where
\* it was) and its metadata is as before; a response is returned only for a
\* SeleniumRequest.
C1_PlainRequestNotHandled ==
    Processed =>
        /\ last.req.kind # "SeleniumRequest" =>
               /\ last.result = "None"
               /\ last.trace = <<>>
               /\ last.wrote = {}
               /\ request.meta = last.metaBefore
               /\ driver.url = last.urlBefore
               /\ last.response = NoResponse
        /\ last.result = "response" => last.req.kind = "SeleniumRequest"

C1_Witness ==
    /\ Processed
    /\ last.req.kind = "Request"
    /\ last.req.cookies # <<>>
    /\ driver.alive
    /\ driver.url # "about:blank"

\* C2: for a SeleniumRequest with no optional field the session is navigated
\* to the request's URL exactly once, and unless a driver call raises a
\* response is returned: its URL is the session's resolved URL, its body the
\* UTF-8 encoding of the page source of the page navigated to, its encoding
\* utf-8, its request the request.
C2_BareRequestResponse ==
    Processed /\ NoOptionalFields(last.req) =>
        /\ Count(last.trace, "get") = 1
        /\ last.trace[1] = [op |-> "get", arg |-> <<last.req.url>>]
        /\ last.result = "response" \/ last.raised \in DriverErrors
        /\ last.raised = "SessionClosed" <=> ~last.aliveBefore
        /\ last.result = "response" =>
               /\ Ops(last.trace) = <<"get", "page_source", "meta_update",
                                      "current_url", "HtmlResponse">>
               /\ driver.url = Resolve(last.req.url)
               /\ last.response.url = driver.url
               /\ Utf8Decode(last.response.body) = PageSource(driver.url, FALSE)
               /\ Len(last.response.body) >= Len(PageSource(driver.url, FALSE))
               /\ \A i \in 1..Len(last.response.body) : last.response.body[i] \in 0..255
               /\ last.response.encoding = "utf-8"
               /\ last.response.request = last.req

C2_Witness ==
    /\ Responded
    /\ NoOptionalFields(last.req)
    /\ last.req.url = "u2"
    /\ last.response.url = "u2r"
    /\ last.response.body = <<195, 169, 226, 130, 172>>

\* C3: when the wait condition does not become true within wait_time the call
\* raises and returns no response; the timeout is what is raised when the
\* wait is reached, there is one navigation and one wait, nothing runs after
\* the wait, and the metadata is left as it was.
C3_WaitTimeoutPropagates ==
    Browser /\ last.req.wait_until = "cond" /\ last.readyAt > last.req.wait_time =>
        /\ last.result = "raise"
        /\ last.response = NoResponse
        /\ last.raised \in DriverErrors \cup {"TimeoutException"}
        /\ last.raised = "TimeoutException" =>
               last.trace = SubSeq(Expected(last.req), 1, Len(last.req.cookies) + 2)
        /\ last.raised \in DriverErrors =>
               /\ Len(last.trace) <= Len(last.req.cookies) + 2
               /\ IsPrefix(last.trace, Expected(last.req))
        /\ Count(last.trace, "get") = 1
        /\ Count(last.trace, "wait") <= 1
        /\ request.meta = last.metaBefore

C3_Witness ==
    /\ Browser
    /\ last.req.wait_until = "cond"
    /\ last.readyAt > last.req.wait_time
    /\ last.req.wait_time = MaxWaitTime
    /\ last.raised = "TimeoutException"
    /\ last.req.screenshot
    /\ Len(last.req.cookies) = 2

Initialised == last.op = "from_crawler"

Misconfigured(s) ==
    \/ s.SELENIUM_DRIVER_NAME = None
    \/ /\ s.SELENIUM_DRIVER_EXECUTABLE_PATH = None
       /\ s.SELENIUM_COMMAND_EXECUTOR = None

\* The configurations whose options or driver class cannot be built.
Unbuildable(s) ==
    \/ s.SELENIUM_DRIVER_NAME \notin SeleniumDrivers
    \/ s.SELENIUM_DRIVER_ARGUMENTS = <<None>>
    \/ /\ s.SELENIUM_DRIVER_EXECUTABLE_PATH # None
       /\ s.SELENIUM_DRIVER_USE_WIRE = "True"
       /\ s.SELENIUM_DRIVER_NAME \notin WireDrivers

\* C4 as stated: NotConfigured, no session and no handler when the driver
\* name is unset or both the path and the endpoint are; exactly one session
\* in every other configuration (here: whenever the driver itself starts).
C4_Original ==
    Initialised /\ last.launchOk =>
        IF Misconfigured(last.settings)
        THEN last.raised = "NotConfigured" /\ sessions = 0 /\ ~crawler.connected
        ELSE sessions = 1

\* C4 amended: NotConfigured, no session and no handler when the driver name
\* is unset or both the path and the endpoint are; in every other
\* configuration initialization either completes with exactly one session and
\* the handler connected, or fails with another error (unknown driver family,
\* argument list unset, no selenium-wire class for the family, the driver not
\* starting) with no session and no handler connected.
C4_FailFastOrOneSession ==
    Initialised =>
        IF Misconfigured(last.settings)
        THEN /\ last.raised = "NotConfigured"
             /\ sessions = 0 /\ driver.sid = 0
             /\ ~crawler.connected /\ crawler.mw = "failed"
        ELSE \/ /\ last.raised = "ok"
                /\ ~Unbuildable(last.settings) /\ last.launchOk
                /\ sessions = 1 /\ driver.sid = 1 /\ driver.alive
                /\ crawler.connected /\ crawler.mw = "built"
             \/ /\ last.raised \in {"ModuleNotFoundError", "TypeError",
                                    "AttributeError", "WebDriverException"}
                /\ Unbuildable(last.settings) \/ ~last.launchOk
                /\ sessions = 0 /\ driver.sid = 0
                /\ ~crawler.connected /\ crawler.mw = "failed"

C4_Witness ==
    /\ Initialised
    /\ last.settings.SELENIUM_DRIVER_NAME = "chrome"
    /\ last.settings.SELENIUM_DRIVER_EXECUTABLE_PATH = None
    /\ last.settings.SELENIUM_COMMAND_EXECUTOR = None
    /\ last.launchOk
    /\ last.raised = "NotConfigured"

\* C5: once spider_closed has run the session is closed; a process_request on
\* a SeleniumRequest and a use of the handle kept in request metadata made
\* after it raise and yield no response; no other session is constructed.
C5_ClosedStaysClosed ==
    crawler.closed =>
        /\ ~driver.alive
        /\ sessions = 1 /\ driver.sid = 1
        /\ Browser => /\ last.result = "raise"
                      /\ last.raised = "SessionClosed"
                      /\ last.response = NoResponse
                      /\ Len(last.trace) = 1
        /\ last.op = "use_meta_driver" => last.raised = "SessionClosed"

C5_Witness ==
    /\ crawler.closed
    /\ Browser
    /\ last.result = "raise"
    /\ request.meta.driver = 1

\* C6: at most one session is ever constructed (also with both a local path
\* and a remote endpoint configured), a built middleware holds exactly that
\* one, and a handle found in request metadata is that session.
C6_AtMostOneSession ==
    /\ sessions <= 1
    /\ driver.sid = sessions
    /\ crawler.mw = "built" => sessions = 1
    /\ crawler.mw \in {"none", "failed"} => sessions = 0
    /\ request.kind # None => request.meta.driver \in {0, driver.sid}
    /\ last.op = "use_meta_driver" => last.handle = driver.sid /\ last.handle = 1

C6_Witness ==
    /\ sessions = 1
    /\ request.kind # None
    /\ request.meta.driver = driver.sid
    /\ crawler.closed
    /\ Processed

\* C7: after a response is returned every cookie of the request is in the
\* session's jar with the request's value.
C7_CookiesPresent ==
    Responded =>
        \A i \in 1..Len(last.req.cookies) :
            driver.jar[last.req.cookies[i][1]] = last.req.cookies[i][2]

C7_Witness ==
    /\ Responded
    /\ last.req.cookies = << <<"a", "2">> >>
    /\ driver.jar = [a |-> "2", b |-> "2"]

\* C8: after a response is returned the metadata holds the session handle
\* under 'driver'; the call writes 'screenshot' exactly when the screenshot
\* flag is set, and the payload is then the non-empty rendering of the page
\* navigated to.
C8_MetaAfterResponse ==
    Responded =>
        /\ request.meta.driver = driver.sid
        /\ driver.sid # 0
        /\ "driver" \in last.wrote
        /\ "screenshot" \in last.wrote <=> last.req.screenshot
        /\ last.req.screenshot =>
               /\ request.meta.screenshot # <<>>
               /\ request.meta.screenshot = Png(Resolve(last.req.url), FALSE)
        /\ ~last.req.screenshot =>
               request.meta.screenshot = last.metaBefore.screenshot

C8_Witness ==
    /\ Responded
    /\ last.req.screenshot
    /\ last.req.script = "js"
    /\ last.metaBefore.screenshot # <<>>
    /\ request.meta.screenshot = <<137, 80, 78, 71, 233, 8364>>

\* C9: the steps of one call are a prefix of navigate, cookies, wait,
\* screenshot, script, page source, handle into metadata, current URL,
\* response, each optional one present only when its field is set; the whole
\* sequence exactly when a response is returned; otherwise the call raises
\* the error of the step it stopped at, which is a driver call.
C9_OrderedSteps ==
    Browser =>
        /\ IsPrefix(last.trace, Expected(last.req))
        /\ last.trace # <<>>
        /\ last.result = "response" <=> last.trace = Expected(last.req)
        /\ last.result = "response" <=> last.raised = "ok"
        /\ last.result = "raise" =>
               /\ last.raised \in DriverErrors \cup {"TimeoutException"}
               /\ last.trace[Len(last.trace)].op \notin {"meta_update", "HtmlResponse"}
               /\ last.raised = "TimeoutException" =>
                      last.trace[Len(last.trace)].op = "wait"
               /\ last.response = NoResponse
        /\ "driver" \in last.wrote <=> Count(last.trace, "meta_update") = 1
        /\ "screenshot" \in last.wrote =>
               /\ Count(last.trace, "get_screenshot_as_png") = 1
               /\ last.trace[Len(last.trace)].op # "get_screenshot_as_png"
                      \/ last.raised = "ok"

C9_Witness ==
    /\ Browser
    /\ last.raised = "WebDriverException"
    /\ last.trace[Len(last.trace)].op = "execute_script"
    /\ Len(last.trace) = 6
    /\ last.wrote = {"screenshot"}

====
